---------------------------- MODULE Spec2Model ----------------------------
(***************************************************************************)
(* doorman: reconciliation of ~/.ssh/authorized_keys against the public    *)
(* keys a GitHub account publishes.  Model of src/doorman.go.              *)
(*                                                                         *)
(* Text is a sequence of one-character strings, so that splitting,         *)
(* trimming, joining and suffix tests are computed the way the Go code     *)
(* computes them on bytes.                                                 *)
(***************************************************************************)
EXTENDS Naturals, Sequences, FiniteSets

(***************************************************************************)
(* Bounds of the model.                                                    *)
(***************************************************************************)
\* longest text the pure-function specification enumerates
MaxLen == 5
\* longest credential file, not written by this tool, found at start
MaxStore == 4
\* number of program invocations (processes run one after the other)
MaxRuns == 3
\* longest typed answer the prompt specification enumerates
MaxAnswer == 4

(***************************************************************************)
(* Characters and the strings package.                                     *)
(***************************************************************************)
SP == " "
NL == "\n"
TAB == "\t"
CR == "\r"

\* unicode.IsSpace restricted to the ASCII range, as strings.TrimSpace uses it
IsSpace(c) == c \in {SP, NL, TAB, CR}

\* strings.HasSuffix
HasSuffix(s, suffix) ==
    /\ Len(s) >= Len(suffix)
    /\ SubSeq(s, Len(s) - Len(suffix) + 1, Len(s)) = suffix

\* strings.HasPrefix
HasPrefix(s, prefix) ==
    /\ Len(s) >= Len(prefix)
    /\ SubSeq(s, 1, Len(prefix)) = prefix

RECURSIVE TrimLeft(_)
TrimLeft(s) ==
    IF s # <<>> /\ IsSpace(Head(s)) THEN TrimLeft(Tail(s)) ELSE s

RECURSIVE TrimRight(_)
TrimRight(s) ==
    IF s # <<>> /\ IsSpace(s[Len(s)])
    THEN TrimRight(SubSeq(s, 1, Len(s) - 1))
    ELSE s

\* strings.TrimSpace
TrimSpace(s) == TrimRight(TrimLeft(s))

\* position of the first sep in s at or after position i, 0 when there is none
RECURSIVE IndexFrom(_, _, _)
IndexFrom(s, sep, i) ==
    IF i > Len(s) THEN 0
    ELSE IF s[i] = sep THEN i
    ELSE IndexFrom(s, sep, i + 1)

\* strings.Split(s, "\n"): the text between separators, <<"">> for the empty text
RECURSIVE Split(_)
Split(s) ==
    LET i == IndexFrom(s, NL, 1)
    IN  IF i = 0 THEN <<s>>
        ELSE <<SubSeq(s, 1, i - 1)>> \o Split(SubSeq(s, i + 1, Len(s)))

\* mutant: every line is ended by a newline, the last one too
RECURSIVE JoinTerminated(_)
JoinTerminated(lines) ==
    IF lines = <<>> THEN <<>>
    ELSE lines[1] \o <<NL>> \o JoinTerminated(Tail(lines))

\* strings.Join(lines, "\n")
RECURSIVE Join(_)
Join(lines) ==
    IF lines = <<>> THEN <<>>
    ELSE IF Len(lines) = 1 THEN lines[1]
    ELSE lines[1] \o <<NL>> \o Join(Tail(lines))

(***************************************************************************)
(* Tagger / matcher.                                                       *)
(***************************************************************************)
\* mutant: the loop tags the line as it came, without trimming it
RECURSIVE TagLoopUntrimmed(_, _)
TagLoopUntrimmed(lines, username) ==
    IF lines = <<>> THEN <<>>
    ELSE LET line == Head(lines)
         IN  (IF Len(line) > 0 THEN <<line \o <<SP>> \o username>> ELSE <<>>)
             \o TagLoopUntrimmed(Tail(lines), username)

\* the loop of appendUsernameToKeys over the split lines
RECURSIVE TagLoop(_, _)
TagLoop(lines, username) ==
    IF lines = <<>> THEN <<>>
    ELSE LET line == TrimSpace(Head(lines))
         IN  (IF Len(line) > 0 THEN <<line \o <<SP>> \o username>> ELSE <<>>)
             \o TagLoop(Tail(lines), username)

\* lines := Split(TrimSpace(keys)); result := the loop over lines; return
\* Join(result).  Each intermediate value is bound once, as in the code.
appendUsernameToKeys(keys, username) ==
    CHOOSE joined \in
        { Join(result) :
            result \in { TagLoop(lines, username) :
                           lines \in { Split(TrimSpace(keys)) } } } : TRUE

\* mutant: the suffix is the identity alone, without the separating space
MatchesBareUsername(line, username) == HasSuffix(line, username)

\* the suffix test of removeKeysByUsername: the line is dropped when it holds
MatchesUsername(line, username) == HasSuffix(line, <<SP>> \o username)

\* mutant: the suffix is tested on the trimmed line
RECURSIVE RemoveLoopTrimmed(_, _)
RemoveLoopTrimmed(lines, username) ==
    IF lines = <<>> THEN <<>>
    ELSE (IF ~MatchesUsername(TrimSpace(Head(lines)), username)
          THEN <<Head(lines)>> ELSE <<>>)
         \o RemoveLoopTrimmed(Tail(lines), username)

\* mutant: only the first line that matches is dropped
RECURSIVE RemoveLoopFirstOnly(_, _)
RemoveLoopFirstOnly(lines, username) ==
    IF lines = <<>> THEN <<>>
    ELSE IF MatchesUsername(Head(lines), username) THEN Tail(lines)
    ELSE <<Head(lines)>> \o RemoveLoopFirstOnly(Tail(lines), username)

\* the loop of removeKeysByUsername over the split lines
RECURSIVE RemoveLoop(_, _)
RemoveLoop(lines, username) ==
    IF lines = <<>> THEN <<>>
    ELSE (IF ~MatchesUsername(Head(lines), username) THEN <<Head(lines)>> ELSE <<>>)
         \o RemoveLoop(Tail(lines), username)

\* lines := Split(keys); newLines := the loop over lines; return
\* Join(newLines)
removeKeysByUsername(keys, username) ==
    CHOOSE joined \in
        { Join(newLines) :
            newLines \in { RemoveLoop(lines, username) :
                             lines \in { Split(keys) } } } : TRUE

(***************************************************************************)
(* Inputs of the pure-function specification.                              *)
(***************************************************************************)
RECURSIVE TextsOver(_, _)
TextsOver(alphabet, n) ==
    IF n = 0 THEN {<<>>}
    ELSE LET shorter == TextsOver(alphabet, n - 1)
         IN  shorter \cup {Append(t, c) : t \in shorter, c \in alphabet}

\* store contents: two key letters, the tag separator and the line separator
StoreTexts == TextsOver({"a", "b", SP, NL}, MaxLen)
\* raw blobs: one key letter and three kinds of white space
BlobTexts == TextsOver({"a", SP, NL, TAB}, MaxLen)

\* identities: empty, one a suffix or a prefix of another, and with a space
PureIds ==
    { <<>>, <<"a">>, <<"b">>, <<"a", "b">>, <<"b", "a">>, <<"b", "b">>,
      <<"a", SP>>, <<SP, "b">> }

WhitespaceFree(s) == \A i \in 1..Len(s) : ~IsSpace(s[i])


(***************************************************************************)
(* The program: main, run and the two reconciliation protocols.            *)
(***************************************************************************)
\* os.WriteFile(authorizedKeysPath, ..., 0600), os.OpenFile(..., 0600)
Perm0600 == "0600"
\* os.Mkdir(sshDir, 0700)
Perm0700 == "0700"
\* the mode of a credential file some other tool created
ForeignMode == "0644"
\* no file, no mode
NoMode == "none"

\* identities given on the command line: one is a suffix of the other
Usernames == { <<"b">>, <<"a", "b">> }

\* os.Args
ArgLists ==
    { <<"doorman">> }
    \cup { <<"doorman", a, u>> : a \in {"add", "remove", "list"}, u \in Usernames }
    \cup { <<"doorman", "add", <<"b">>, "extra">> }

\* bodies the key source answers with: empty, blank, one key, and two keys
\* with surrounding white space, a blank line and a key comment that reads " b"
BlankBlob == <<SP, NL>>
Blobs ==
    { <<>>,
      BlankBlob,
      <<"k">>,
      <<SP, "k", SP, "b", NL, NL, "j", NL>> }

\* what httpGet and io.ReadAll can produce
Responses ==
    { [transport |-> "refused", status |-> 0, body |-> <<>>, read |-> "nil"],
      [transport |-> "nil", status |-> 404, body |-> <<>>, read |-> "nil"],
      [transport |-> "nil", status |-> 200, body |-> <<>>, read |-> "reset"] }
    \cup { [transport |-> "nil", status |-> 200, body |-> b, read |-> "nil"] :
             b \in Blobs }

\* fetchKeys: the bytes and the error
fetchKeys(resp) ==
    IF resp.transport # "nil" THEN [keys |-> <<>>, err |-> resp.transport]
    ELSE IF resp.status # 200 THEN [keys |-> <<>>, err |-> "failed to fetch keys: HTTP"]
    ELSE IF resp.read # "nil" THEN [keys |-> <<>>, err |-> resp.read]
    ELSE [keys |-> resp.body, err |-> "nil"]

\* what the operator types, and whether the stream ends in a read error
\* instead of end-of-file
StdinStreams ==
    { [buf |-> <<"y", "e", "s", NL, "y", "e", "s", NL>>, fail |-> FALSE],
      [buf |-> <<"y", "e", "s", NL, "n", "o", NL>>, fail |-> FALSE],
      [buf |-> <<"n", "o", NL>>, fail |-> FALSE],
      [buf |-> <<SP, "Y", "e", "S", SP, NL, "y", "e", "s">>, fail |-> FALSE],
      [buf |-> <<"y", "e", "s", NL>>, fail |-> TRUE],
      [buf |-> <<>>, fail |-> TRUE],
      [buf |-> <<>>, fail |-> FALSE] }

\* credential files found at start that this tool did not write
ForeignContents ==
    { <<>>,
      <<"k", SP, "b">>,
      <<"k", SP, "a", "b", NL, "j", SP, "b", NL, "m">>,
      <<"j", SP, "b", NL>> }

\* and every short text over the letters of the identities
ShortStores == TextsOver({"a", "b", SP, NL}, MaxStore)

ToLowerChar(c) ==
    CASE c = "Y" -> "y"
      [] c = "E" -> "e"
      [] c = "S" -> "s"
      [] c = "N" -> "n"
      [] c = "O" -> "o"
      [] OTHER -> c

\* strings.ToLower
ToLower(s) == [i \in 1..Len(s) |-> ToLowerChar(s[i])]

\* bufio.Reader.ReadString('\n') on the rest of the stream
ReadString(reader) ==
    LET i == IndexFrom(reader.buf, NL, 1)
    IN  IF i > 0
        THEN [line |-> SubSeq(reader.buf, 1, i),
              rest |-> SubSeq(reader.buf, i + 1, Len(reader.buf)),
              err |-> "nil"]
        ELSE [line |-> reader.buf,
              rest |-> <<>>,
              err |-> IF reader.fail THEN "read error" ELSE "EOF"]

\* mutant: the answer is compared as typed, without lower-casing it
promptConfirmationCaseSensitive(reader) ==
    LET r == ReadString(reader)
        left == [open |-> TRUE, buf |-> r.rest, fail |-> reader.fail]
    IN  IF r.err # "nil" /\ r.err # "EOF"
        THEN [confirmed |-> FALSE, err |-> r.err, reader |-> left]
        ELSE [confirmed |-> TrimSpace(r.line) = <<"y", "e", "s">>,
              err |-> "nil", reader |-> left]

\* mutant: the end of the input is returned as an error
promptConfirmationEofFails(reader) ==
    LET r == ReadString(reader)
        left == [open |-> TRUE, buf |-> r.rest, fail |-> reader.fail]
    IN  IF r.err # "nil"
        THEN [confirmed |-> FALSE, err |-> r.err, reader |-> left]
        ELSE [confirmed |-> ToLower(TrimSpace(r.line)) = <<"y", "e", "s">>,
              err |-> "nil", reader |-> left]

\* promptConfirmation, after the prompt was printed: the answer, the error and
\* the reader it leaves
promptConfirmation(reader) ==
    LET r == ReadString(reader)
        left == [open |-> TRUE, buf |-> r.rest, fail |-> reader.fail]
    IN  IF r.err # "nil" /\ r.err # "EOF"
        THEN [confirmed |-> FALSE, err |-> r.err, reader |-> left]
        ELSE [confirmed |-> ToLower(TrimSpace(r.line)) = <<"y", "e", "s">>,
              err |-> "nil", reader |-> left]

VARIABLES
    pIn, pId, pOut, pStage,                            \* the pure-function harness
    fsFile, fsContent, fsFileMode, fsDir, fsDirMode,  \* the file system
    pathFault,                                         \* the path cannot be walked
    mayShort,                                          \* a write may stop part-way
    pc, args, keys, keysWithUsername, fileExists, existingKeys,
    stdinReader, stdout, err, runErr, exit,            \* the process
    runs, pre, asked, muts, outcome, log, damaged, fs0, \* history
    response,                                          \* what the key source sent
    partial,                              \* an earlier call wrote, then failed
    heard                         \* the input each prompt of this call found

pureVars == <<pIn, pId, pOut, pStage>>
fsVars == <<fsFile, fsContent, fsFileMode, fsDir, fsDirMode>>
procVars == <<args, keys, keysWithUsername, fileExists, existingKeys,
              stdinReader, stdout, err, runErr, exit>>
histVars == <<runs, pre, asked, muts, outcome, log, damaged, fs0, response,
              partial, heard>>
protoVars == <<fsVars, pathFault, mayShort, pc, procVars, histVars>>
vars == <<pureVars, protoVars>>

NoReader == [open |-> FALSE, buf |-> <<>>, fail |-> FALSE]
NoError == [wrap |-> "nil", cause |-> "nil"]
\* httpGet was not called
NoResponse == [transport |-> "none", status |-> 0, body |-> <<>>, read |-> "nil"]
Snapshot == [file |-> fsFile, content |-> fsContent, mode |-> fsFileMode,
             dir |-> fsDir, dirMode |-> fsDirMode]

Say(msg) == [msg |-> msg, text |-> <<>>]
Show(msg, text) == [msg |-> msg, text |-> text]

action == args[2]
username == args[3]

ProcInit ==
    /\ args = <<>>
    /\ keys = <<>>
    /\ keysWithUsername = <<>>
    /\ fileExists = TRUE
    /\ existingKeys = <<>>
    /\ stdinReader = NoReader
    /\ stdout = <<>>
    /\ err = "nil"
    /\ runErr = NoError
    /\ exit = "none"

FsInit(contents) ==
    \/ /\ fsFile = FALSE
       /\ fsContent = <<>>
       /\ fsFileMode = NoMode
       /\ fsDir \in BOOLEAN
       /\ fsDirMode = IF fsDir THEN Perm0700 ELSE NoMode
    \/ /\ fsFile = TRUE
       /\ fsContent \in contents
       /\ fsFileMode = IF fsContent = <<>> THEN Perm0600 ELSE ForeignMode
       /\ fsDir = TRUE
       /\ fsDirMode = Perm0700

\* no process has run yet
ProgInit ==
    /\ pathFault = FALSE
    /\ pc = "idle"
    /\ ProcInit
    /\ runs = 0
    /\ pre = Snapshot
    /\ asked = <<>>
    /\ heard = <<>>
    /\ muts = <<>>
    /\ outcome = "none"
    /\ log = <<>>
    /\ damaged = FALSE
    /\ fs0 = Snapshot
    /\ response = NoResponse
    /\ partial = FALSE

\* the pure-function variables while the program runs
PureIdle ==
    /\ pIn = <<>>
    /\ pId = <<>>
    /\ pOut = <<>>
    /\ pStage = "off"

\* the program's variables while the pure functions are exercised
ProtoOff ==
    /\ fsFile = FALSE
    /\ fsContent = <<>>
    /\ fsFileMode = NoMode
    /\ fsDir = FALSE
    /\ fsDirMode = NoMode
    /\ mayShort = FALSE
    /\ ProgInit

Init ==
    /\ PureIdle
    /\ FsInit(ForeignContents \cup ShortStores)
    /\ mayShort = TRUE
    /\ ProgInit

(***************************************************************************)
(* The pure functions on enumerated inputs.                                *)
(***************************************************************************)
PureInit ==
    /\ ProtoOff
    /\ pIn \in StoreTexts \cup BlobTexts
    /\ pId \in PureIds
    /\ pOut = <<>>
    /\ pStage = "in"

\* removeKeysByUsername applied to the input
PureFilter ==
    /\ pStage = "in"
    /\ pOut' = removeKeysByUsername(pIn, pId)
    /\ pStage' = "filtered"
    /\ UNCHANGED <<pIn, pId, protoVars>>

\* removeKeysByUsername applied to its own result
PureFilterAgain ==
    /\ pStage = "filtered"
    /\ pOut' = removeKeysByUsername(pOut, pId)
    /\ pStage' = "refiltered"
    /\ UNCHANGED <<pIn, pId, protoVars>>

\* appendUsernameToKeys applied to the input
PureTag ==
    /\ pStage = "in"
    /\ pOut' = appendUsernameToKeys(pIn, pId)
    /\ pStage' = "tagged"
    /\ UNCHANGED <<pIn, pId, protoVars>>

\* the tagged block of a delivered blob appended to the input the way
\* confirmAndAddKeys appends it to an existing file (a newline first when the
\* file is not empty), then removeKeysByUsername applied to the whole
PureRoundTrip ==
    /\ pStage = "in"
    /\ \E blob \in {b \in Blobs : TrimSpace(b) # <<>>} :
         LET block == appendUsernameToKeys(blob, pId)
             added == IF Len(pIn) > 0 THEN pIn \o <<NL>> \o block ELSE block
         IN  pOut' = removeKeysByUsername(added, pId)
    /\ pStage' = "roundtrip"
    /\ UNCHANGED <<pIn, pId, protoVars>>

PureNext == PureFilter \/ PureFilterAgain \/ PureTag \/ PureRoundTrip

SpecPure == PureInit /\ [][PureNext]_vars

(***************************************************************************)
(* promptConfirmation on enumerated input streams.                         *)
(***************************************************************************)
\* what can be typed: every short text over the letters of "yes", a capital,
\* a space and the newline, and some longer answers
AnswerTexts ==
    TextsOver({"y", "e", "s", "Y", SP, NL}, MaxAnswer)
    \cup { <<"n", "o", NL>>,
           <<"y", "e", "s", SP, "p", "l", "e", "a", "s", "e", NL>>,
           <<"y", "e", "s", "s", NL>>,
           <<TAB, "Y", "E", "S", SP, CR, NL>>,
           <<SP, "Y", "e", "S", SP, NL, "y", "e", "s">>,
           <<NL, "y", "e", "s", NL>>,
           <<"y", SP, "e", "s", NL>> }

PromptInit ==
    /\ ProtoOff
    /\ pIn \in [buf : AnswerTexts, fail : BOOLEAN]
    /\ pId = <<>>
    /\ pOut = <<>>
    /\ pStage = "ask"

\* promptConfirmation applied to the stream
PurePrompt ==
    /\ pStage = "ask"
    /\ pOut' = promptConfirmation([open |-> TRUE, buf |-> pIn.buf, fail |-> pIn.fail])
    /\ pStage' = "answered"
    /\ UNCHANGED <<pIn, pId, protoVars>>

SpecPrompt == PromptInit /\ [][PurePrompt]_vars

(***************************************************************************)
(* System calls and their outcomes.                                        *)
(***************************************************************************)
\* os.Stat(authorizedKeysPath): the file is there, ENOENT, or another error
\* (EACCES, ENOTDIR, ELOOP), which os.IsNotExist does not recognise.  Such an
\* error is a property of the path: the later calls on the path fail too.
StatOutcomes == IF fsFile THEN {"ok", "fault"} ELSE {"notexist", "fault"}

\* how many bytes of data a write puts down: all of them, none, or any proper
\* prefix
WriteLens(data) ==
    {0, Len(data)} \cup (IF mayShort THEN 1..(Len(data) - 1) ELSE {})

IsShort(data, n) == 0 < n /\ n < Len(data)

\* mutant: the file is created readable by everyone (0644)
WriteFileOutcomesWorldReadable(data) ==
    { [file |-> fsFile, content |-> fsContent, mode |-> fsFileMode,
       err |-> "open failed", wrote |-> FALSE, short |-> FALSE] }
    \cup { [file |-> TRUE,
            content |-> SubSeq(data, 1, n),
            mode |-> IF fsFile THEN fsFileMode ELSE ForeignMode,
            err |-> IF n = Len(data) THEN "nil" ELSE "short write",
            wrote |-> TRUE,
            short |-> IsShort(data, n)] : n \in WriteLens(data) }

\* mutant: the file is opened O_APPEND instead of O_TRUNC
WriteFileOutcomesAppending(data) ==
    { [file |-> fsFile, content |-> fsContent, mode |-> fsFileMode,
       err |-> "open failed", wrote |-> FALSE, short |-> FALSE] }
    \cup { [file |-> TRUE,
            content |-> fsContent \o SubSeq(data, 1, n),
            mode |-> IF fsFile THEN fsFileMode ELSE Perm0600,
            err |-> IF n = Len(data) THEN "nil" ELSE "short write",
            wrote |-> TRUE,
            short |-> IsShort(data, n)] : n \in WriteLens(data) }

\* mutant: writing nothing removes the file
WriteFileOutcomesUnlinkEmpty(data) ==
    { [file |-> fsFile, content |-> fsContent, mode |-> fsFileMode,
       err |-> "open failed", wrote |-> FALSE, short |-> FALSE] }
    \cup { [file |-> n > 0 \/ data # <<>>,
            content |-> SubSeq(data, 1, n),
            mode |-> IF fsFile THEN fsFileMode ELSE Perm0600,
            err |-> IF n = Len(data) THEN "nil" ELSE "short write",
            wrote |-> TRUE,
            short |-> IsShort(data, n)] : n \in WriteLens(data) }

\* os.WriteFile(authorizedKeysPath, data, 0600): O_WRONLY|O_CREATE|O_TRUNC, one
\* write, close.  The open can fail and leave everything as it was; the write
\* can stop after a prefix of data.
WriteFileOutcomes(data) ==
    { [file |-> fsFile, content |-> fsContent, mode |-> fsFileMode,
       err |-> "open failed", wrote |-> FALSE, short |-> FALSE] }
    \cup { [file |-> TRUE,
            content |-> SubSeq(data, 1, n),
            mode |-> IF fsFile THEN fsFileMode ELSE Perm0600,
            err |-> IF n = Len(data) THEN "nil" ELSE "short write",
            wrote |-> TRUE,
            short |-> IsShort(data, n)] : n \in WriteLens(data) }

\* getStdinReader: the buffered reader is created at the first prompt and
\* kept for the later ones
Readers ==
    IF stdinReader.open THEN {stdinReader}
    ELSE {[open |-> TRUE, buf |-> s.buf, fail |-> s.fail] : s \in StdinStreams}

(***************************************************************************)
(* main and run.                                                           *)
(***************************************************************************)
\* main, once run returned re with out printed so far: print the error and
\* exit 1, or return
Exit(re, out) ==
    /\ runErr' = re
    /\ stdout' = IF re # NoError THEN Append(out, Say(re.wrap)) ELSE out
    /\ exit' = IF re # NoError THEN "1" ELSE "returned"
    /\ pc' = "exited"

\* run, once confirmAndAddKeys / confirmAndRemoveKeys returned e: wrap the
\* error, or report success
RunTail(e, out) ==
    IF e # "nil"
    THEN Exit([wrap |-> IF action = "add"
                        THEN "error adding keys to authorized_keys"
                        ELSE "error removing keys from authorized_keys",
               cause |-> e],
              out)
    ELSE Exit(NoError,
              Append(out, Say(IF action = "add" THEN "Keys added successfully!"
                              ELSE "Keys removed successfully!")))

\* return e from confirmAndAddKeys / confirmAndRemoveKeys with outcome o
Return(e, o, out) ==
    /\ err' = e
    /\ outcome' = o
    /\ RunTail(e, out)

\* go on to the next step of the protocol
Continue(nextPc, out) ==
    /\ pc' = nextPc
    /\ stdout' = out
    /\ UNCHANGED <<err, outcome, runErr, exit>>

\* mutant: the answer is read and not looked at
ConfirmIgnoringAnswer(name, shown, prompt, nextPc) ==
    \E reader \in Readers :
        LET p == promptConfirmation(reader)
            out == stdout \o shown \o <<Say(prompt)>>
        IN  /\ stdinReader' = p.reader
            /\ asked' = Append(asked, [prompt |-> name, yes |-> p.confirmed,
                                       err |-> p.err])
            /\ heard' = Append(heard, [buf |-> reader.buf, fail |-> reader.fail])
            /\ IF p.err # "nil" THEN Return(p.err, "Failed", out)
               ELSE Continue(nextPc, out)

\* mutant: an answer that could not be read counts as a no
ConfirmErrorIsDecline(name, shown, prompt, nextPc) ==
    \E reader \in Readers :
        LET p == promptConfirmation(reader)
            out == stdout \o shown \o <<Say(prompt)>>
        IN  /\ stdinReader' = p.reader
            /\ asked' = Append(asked, [prompt |-> name, yes |-> p.confirmed,
                                       err |-> p.err])
            /\ heard' = Append(heard, [buf |-> reader.buf, fail |-> reader.fail])
            /\ IF ~p.confirmed
               THEN Return("nil", "Aborted", Append(out, Say("Operation aborted.")))
               ELSE Continue(nextPc, out)

\* one promptConfirmation call and the three ways the caller goes on
Confirm(name, shown, prompt, nextPc) ==
    \E reader \in Readers :
        LET p == promptConfirmation(reader)
            out == stdout \o shown \o <<Say(prompt)>>
        IN  /\ stdinReader' = p.reader
            /\ asked' = Append(asked, [prompt |-> name, yes |-> p.confirmed,
                                       err |-> p.err])
            /\ heard' = Append(heard, [buf |-> reader.buf, fail |-> reader.fail])
            /\ IF p.err # "nil" THEN Return(p.err, "Failed", out)
               ELSE IF ~p.confirmed
               THEN Return("nil", "Aborted", Append(out, Say("Operation aborted.")))
               ELSE Continue(nextPc, out)

\* what no step of run changes
runFrame == <<args, runs, pre, fs0, mayShort, partial, pureVars>>

\* what no step of confirmAndAddKeys / confirmAndRemoveKeys changes
callFrame == <<runFrame, response>>

\* the call that has returned changed the file and then failed
WroteThenFailed ==
    /\ outcome = "Failed"
    /\ \E i \in 1..Len(muts) : muts[i] # "mkdir"

\* a process is started with an argument list
Launch(a) ==
    /\ runs' = runs + 1
    /\ args' = a
    /\ pc' = "run"
    /\ keys' = <<>>
    /\ keysWithUsername' = <<>>
    /\ fileExists' = TRUE
    /\ existingKeys' = <<>>
    /\ stdinReader' = NoReader
    /\ stdout' = <<>>
    /\ err' = "nil"
    /\ runErr' = NoError
    /\ exit' = "none"
    /\ pathFault' = FALSE
    /\ pre' = Snapshot
    /\ asked' = <<>>
    /\ heard' = <<>>
    /\ muts' = <<>>
    /\ outcome' = "none"
    /\ response' = NoResponse
    /\ partial' = (partial \/ WroteThenFailed)
    /\ UNCHANGED <<fsVars, mayShort, log, damaged, fs0, pureVars>>

\* the first invocation
Start(a) == pc = "idle" /\ Launch(a)

\* a later invocation, once the process before it has exited
Restart(a) == pc = "exited" /\ runs < MaxRuns /\ Launch(a)

\* mutant: the keys are not looked at before the action is taken
RunEntryNoBlankCheck ==
    /\ pc = "run"
    /\ IF Len(args) # 3
       THEN /\ Exit([wrap |-> "invalid arguments", cause |-> "nil"],
                    stdout \o <<Say("Usage: doorman add <username>"),
                                Say("       doorman remove <username>")>>)
            /\ UNCHANGED <<keys, response>>
       ELSE \E resp \in Responses :
              LET f == fetchKeys(resp)
              IN  /\ response' = resp
                  /\ keys' = f.keys
                  /\ IF f.err # "nil"
                     THEN Exit([wrap |-> "error fetching keys", cause |-> f.err], stdout)
                     ELSE IF action = "add"
                     THEN pc' = "add" /\ UNCHANGED <<stdout, runErr, exit>>
                     ELSE IF action = "remove"
                     THEN pc' = "remove" /\ UNCHANGED <<stdout, runErr, exit>>
                     ELSE Exit([wrap |-> "invalid action", cause |-> "nil"], stdout)
    /\ UNCHANGED <<fsVars, pathFault, keysWithUsername, fileExists,
                   existingKeys, stdinReader, err, asked, heard, muts, outcome, log,
                   damaged, runFrame>>

\* run, up to the call of confirmAndAddKeys / confirmAndRemoveKeys
RunEntry ==
    /\ pc = "run"
    /\ IF Len(args) # 3
       THEN /\ Exit([wrap |-> "invalid arguments", cause |-> "nil"],
                    stdout \o <<Say("Usage: doorman add <username>"),
                                Say("       doorman remove <username>")>>)
            /\ UNCHANGED <<keys, response>>
       ELSE \E resp \in Responses :
              LET f == fetchKeys(resp)
              IN  /\ response' = resp
                  /\ keys' = f.keys
                  /\ IF f.err # "nil"
                     THEN Exit([wrap |-> "error fetching keys", cause |-> f.err], stdout)
                     ELSE IF Len(TrimSpace(f.keys)) = 0
                     THEN Exit([wrap |-> "no public keys found for user",
                                cause |-> "nil"], stdout)
                     ELSE IF action = "add"
                     THEN pc' = "add" /\ UNCHANGED <<stdout, runErr, exit>>
                     ELSE IF action = "remove"
                     THEN pc' = "remove" /\ UNCHANGED <<stdout, runErr, exit>>
                     ELSE Exit([wrap |-> "invalid action", cause |-> "nil"], stdout)
    /\ UNCHANGED <<fsVars, pathFault, keysWithUsername, fileExists,
                   existingKeys, stdinReader, err, asked, heard, muts, outcome, log,
                   damaged, runFrame>>

(***************************************************************************)
(* confirmAndAddKeys.                                                      *)
(***************************************************************************)
\* tag the keys, resolve the path, stat the file
AddResolve ==
    /\ pc = "add"
    /\ keysWithUsername' = appendUsernameToKeys(keys, username)
    /\ \E userOk \in BOOLEAN :
         IF ~userOk
         THEN /\ Return("user: lookup failed", "Failed", stdout)
              /\ UNCHANGED <<fileExists, pathFault>>
         ELSE \E st \in StatOutcomes :
                /\ fileExists' = (st # "notexist")
                /\ pathFault' = (st = "fault")
                /\ Continue(IF st = "notexist" THEN "add_create" ELSE "add_display",
                            stdout)
    /\ UNCHANGED <<fsVars, keys, existingKeys, stdinReader, asked, heard,
                   muts, log, damaged, callFrame>>

\* mutant: once the creation is confirmed the keys are written unasked
AddConfirmCreateSkipsWrite ==
    /\ pc = "add_create"
    /\ Confirm("create", <<>>,
               "The authorized_keys file does not exist. Do you want to create it? (yes/no): ",
               "add_ensure")
    /\ UNCHANGED <<fsVars, pathFault, keys, keysWithUsername,
                   fileExists, existingKeys, muts, log, damaged, callFrame>>

\* mutant: the keys are shown together with the question whether to create
AddConfirmCreateShowsBlock ==
    /\ pc = "add_create"
    /\ Confirm("create", <<Show("Keys to be added:", keysWithUsername)>>,
               "The authorized_keys file does not exist. Do you want to create it? (yes/no): ",
               "add_display")
    /\ UNCHANGED <<fsVars, pathFault, keys, keysWithUsername,
                   fileExists, existingKeys, muts, log, damaged, callFrame>>

\* the file does not exist: ask whether to create it
AddConfirmCreate ==
    /\ pc = "add_create"
    /\ Confirm("create", <<>>,
               "The authorized_keys file does not exist. Do you want to create it? (yes/no): ",
               "add_display")
    /\ UNCHANGED <<fsVars, pathFault, keys, keysWithUsername,
                   fileExists, existingKeys, muts, log, damaged, callFrame>>

\* show the tagged keys and ask whether to add them
AddConfirmWrite ==
    /\ pc = "add_display"
    /\ Confirm("write", <<Show("Keys to be added:", keysWithUsername)>>,
               "Do you want to add these keys? (yes/no): ",
               "add_ensure")
    /\ UNCHANGED <<fsVars, pathFault, keys, keysWithUsername,
                   fileExists, existingKeys, muts, log, damaged, callFrame>>

\* mutant: the keys are always written with os.WriteFile
AfterEnsureOverwrite == "add_writefile"

\* if fileExists: append to the open file; otherwise os.WriteFile
AfterEnsure == IF fileExists THEN "add_open" ELSE "add_writefile"

\* mutant: the error of os.Mkdir is dropped and the write goes ahead
AddEnsureDirIgnoresError ==
    /\ pc = "add_ensure"
    /\ \E userOk \in BOOLEAN :
         IF ~userOk
         THEN /\ Return("user: lookup failed", "Failed", stdout)
              /\ UNCHANGED <<fsDir, fsDirMode, muts>>
         ELSE IF pathFault \/ fsDir
         THEN /\ Continue(AfterEnsure, stdout)
              /\ UNCHANGED <<fsDir, fsDirMode, muts>>
         ELSE \E made \in BOOLEAN :
                IF made
                THEN /\ fsDir' = TRUE
                     /\ fsDirMode' = Perm0700
                     /\ muts' = Append(muts, "mkdir")
                     /\ Continue(AfterEnsure, stdout)
                ELSE /\ Continue(AfterEnsure, stdout)
                     /\ UNCHANGED <<fsDir, fsDirMode, muts>>
    /\ UNCHANGED <<fsFile, fsContent, fsFileMode, pathFault, keys,
                   keysWithUsername, fileExists, existingKeys, stdinReader, asked, heard,
                   log, damaged, callFrame>>

\* ensureSSHDir: os.Mkdir only when os.Stat says the directory does not exist
AddEnsureDir ==
    /\ pc = "add_ensure"
    /\ \E userOk \in BOOLEAN :
         IF ~userOk
         THEN /\ Return("user: lookup failed", "Failed", stdout)
              /\ UNCHANGED <<fsDir, fsDirMode, muts>>
         ELSE IF pathFault \/ fsDir
         THEN /\ Continue(AfterEnsure, stdout)
              /\ UNCHANGED <<fsDir, fsDirMode, muts>>
         ELSE \E made \in BOOLEAN :
                IF made
                THEN /\ fsDir' = TRUE
                     /\ fsDirMode' = Perm0700
                     /\ muts' = Append(muts, "mkdir")
                     /\ Continue(AfterEnsure, stdout)
                ELSE /\ Return("mkdir failed", "Failed", stdout)
                     /\ UNCHANGED <<fsDir, fsDirMode, muts>>
    /\ UNCHANGED <<fsFile, fsContent, fsFileMode, pathFault, keys,
                   keysWithUsername, fileExists, existingKeys, stdinReader, asked, heard,
                   log, damaged, callFrame>>

\* mutant: the separator is written whatever the size of the file
AddOpenAlwaysSeparator ==
    /\ pc = "add_open"
    /\ IF pathFault \/ ~fsFile
       THEN Return("open failed", "Failed", stdout)
       ELSE \E o \in {"ok", "open failed", "stat failed"} :
              IF o # "ok" THEN Return(o, "Failed", stdout)
              ELSE Continue("add_sep", stdout)
    /\ UNCHANGED <<fsVars, pathFault, keys, keysWithUsername,
                   fileExists, existingKeys, stdinReader, asked, heard, muts, log,
                   damaged, callFrame>>

\* os.OpenFile(O_APPEND|O_WRONLY) and file.Stat of the existing file
AddOpen ==
    /\ pc = "add_open"
    /\ IF pathFault \/ ~fsFile
       THEN Return("open failed", "Failed", stdout)
       ELSE \E o \in {"ok", "open failed", "stat failed"} :
              IF o # "ok" THEN Return(o, "Failed", stdout)
              ELSE Continue(IF Len(fsContent) > 0 THEN "add_sep" ELSE "add_block",
                            stdout)
    /\ UNCHANGED <<fsVars, pathFault, keys, keysWithUsername,
                   fileExists, existingKeys, stdinReader, asked, heard, muts, log,
                   damaged, callFrame>>

\* mutant: no separator is written before the block
AddWriteSeparatorSkipped ==
    /\ pc = "add_sep"
    /\ Continue("add_block", stdout)
    /\ UNCHANGED <<fsVars, muts, pathFault, keys, keysWithUsername, fileExists,
                   existingKeys, stdinReader, asked, heard, log, damaged, callFrame>>

\* file.WriteString("\n") when the file is not empty
AddWriteSeparator ==
    /\ pc = "add_sep"
    /\ \E written \in BOOLEAN :
         IF written
         THEN /\ fsContent' = fsContent \o <<NL>>
              /\ muts' = Append(muts, "append")
              /\ Continue("add_block", stdout)
         ELSE /\ Return("short write", "Failed", stdout)
              /\ UNCHANGED <<fsContent, muts>>
    /\ UNCHANGED <<fsFile, fsFileMode, fsDir, fsDirMode, pathFault,
                   keys, keysWithUsername, fileExists, existingKeys, stdinReader,
                   asked, heard, log, damaged, callFrame>>

\* mutant: the lines the file already holds are not written again
AddWriteBlockDedup ==
    /\ pc = "add_block"
    /\ LET held == {Split(fsContent)[i] : i \in 1..Len(Split(fsContent))}
           IsNew(l) == l \notin held
           fresh == Join(SelectSeq(Split(keysWithUsername), IsNew))
       IN  \E n \in WriteLens(fresh) :
             /\ fsContent' = fsContent \o SubSeq(fresh, 1, n)
             /\ muts' = IF n > 0 THEN Append(muts, "append") ELSE muts
             /\ IF n = Len(fresh)
                THEN /\ Return("nil", "Done", stdout)
                     /\ log' = Append(log, [op |-> "add", id |-> username,
                                            block |-> keysWithUsername])
                ELSE /\ Return("short write", "Failed", stdout)
                     /\ UNCHANGED log
    /\ UNCHANGED <<fsFile, fsFileMode, fsDir, fsDirMode, pathFault, keys,
                   keysWithUsername, fileExists, existingKeys, stdinReader, asked, heard,
                   damaged, callFrame>>

\* mutant: the block is written with a newline after it
AddWriteBlockTrailingNewline ==
    /\ pc = "add_block"
    /\ \E n \in WriteLens(keysWithUsername) :
         /\ fsContent' = IF n = Len(keysWithUsername)
                         THEN fsContent \o keysWithUsername \o <<NL>>
                         ELSE fsContent \o SubSeq(keysWithUsername, 1, n)
         /\ muts' = IF n > 0 THEN Append(muts, "append") ELSE muts
         /\ IF n = Len(keysWithUsername)
            THEN /\ Return("nil", "Done", stdout)
                 /\ log' = Append(log, [op |-> "add", id |-> username,
                                        block |-> keysWithUsername])
            ELSE /\ Return("short write", "Failed", stdout)
                 /\ UNCHANGED log
    /\ UNCHANGED <<fsFile, fsFileMode, fsDir, fsDirMode, pathFault, keys,
                   keysWithUsername, fileExists, existingKeys, stdinReader, asked, heard,
                   damaged, callFrame>>

\* file.Write(keysWithUsername) on the O_APPEND descriptor: all of it, or an
\* error after a prefix
AddWriteBlock ==
    /\ pc = "add_block"
    /\ \E n \in WriteLens(keysWithUsername) :
         /\ fsContent' = fsContent \o SubSeq(keysWithUsername, 1, n)
         /\ muts' = IF n > 0 THEN Append(muts, "append") ELSE muts
         /\ IF n = Len(keysWithUsername)
            THEN /\ Return("nil", "Done", stdout)
                 /\ log' = Append(log, [op |-> "add", id |-> username,
                                        block |-> keysWithUsername])
            ELSE /\ Return("short write", "Failed", stdout)
                 /\ UNCHANGED log
    /\ UNCHANGED <<fsFile, fsFileMode, fsDir, fsDirMode, pathFault, keys,
                   keysWithUsername, fileExists, existingKeys, stdinReader, asked, heard,
                   damaged, callFrame>>

\* mutant: the error of os.WriteFile is dropped
AddWriteFileIgnoresError ==
    /\ pc = "add_writefile"
    /\ \E w \in WriteFileOutcomes(keysWithUsername) :
         /\ fsFile' = w.file
         /\ fsContent' = w.content
         /\ fsFileMode' = w.mode
         /\ muts' = IF w.wrote
                    THEN Append(muts, IF fsFile THEN "truncate" ELSE "create")
                    ELSE muts
         /\ Return("nil", "Done", stdout)
         /\ log' = Append(log, [op |-> "add", id |-> username,
                                block |-> keysWithUsername])
         /\ damaged' = (damaged \/ (w.wrote /\ fsFile /\ w.err # "nil"))
    /\ UNCHANGED <<fsDir, fsDirMode, pathFault, keys, keysWithUsername,
                   fileExists, existingKeys, stdinReader, asked, heard, callFrame>>

\* os.WriteFile(authorizedKeysPath, keysWithUsername, 0600) for a new file
AddWriteFile ==
    /\ pc = "add_writefile"
    /\ \E w \in WriteFileOutcomes(keysWithUsername) :
         /\ fsFile' = w.file
         /\ fsContent' = w.content
         /\ fsFileMode' = w.mode
         /\ muts' = IF w.wrote
                    THEN Append(muts, IF fsFile THEN "truncate" ELSE "create")
                    ELSE muts
         /\ IF w.err = "nil"
            THEN /\ Return("nil", "Done", stdout)
                 /\ log' = Append(log, [op |-> "add", id |-> username,
                                        block |-> keysWithUsername])
            ELSE /\ Return(w.err, "Failed", stdout)
                 /\ UNCHANGED log
         /\ damaged' = (damaged \/ (w.wrote /\ fsFile /\ w.err # "nil"))
    /\ UNCHANGED <<fsDir, fsDirMode, pathFault, keys, keysWithUsername,
                   fileExists, existingKeys, stdinReader, asked, heard, callFrame>>

(***************************************************************************)
(* confirmAndRemoveKeys.                                                   *)
(***************************************************************************)
\* mutant: a missing file is not looked for; the operator is asked at once
RemoveResolveAsksAnyway ==
    /\ pc = "remove"
    /\ keysWithUsername' = appendUsernameToKeys(keys, username)
    /\ \E userOk \in BOOLEAN :
         IF ~userOk
         THEN /\ Return("user: lookup failed", "Failed", stdout)
              /\ UNCHANGED pathFault
         ELSE \E st \in StatOutcomes :
                /\ pathFault' = (st = "fault")
                /\ Continue("rm_confirm", stdout)
    /\ UNCHANGED <<fsVars, keys, fileExists, existingKeys,
                   stdinReader, asked, heard, muts, log, damaged, callFrame>>

\* tag the keys, resolve the path, stat the file
RemoveResolve ==
    /\ pc = "remove"
    /\ keysWithUsername' = appendUsernameToKeys(keys, username)
    /\ \E userOk \in BOOLEAN :
         IF ~userOk
         THEN /\ Return("user: lookup failed", "Failed", stdout)
              /\ UNCHANGED pathFault
         ELSE \E st \in StatOutcomes :
                IF st = "notexist"
                THEN /\ Return("nil", "NoOp",
                               Append(stdout,
                                      Say("The authorized_keys file does not exist.")))
                     /\ UNCHANGED pathFault
                ELSE /\ pathFault' = (st = "fault")
                     /\ Continue("rm_confirm", stdout)
    /\ UNCHANGED <<fsVars, keys, fileExists, existingKeys,
                   stdinReader, asked, heard, muts, log, damaged, callFrame>>

\* show the tagged keys and ask whether to remove them
RemoveConfirm ==
    /\ pc = "rm_confirm"
    /\ Confirm("remove", <<Show("Keys to be removed:", keysWithUsername)>>,
               "Do you want to remove these keys? (yes/no): ",
               "rm_read")
    /\ UNCHANGED <<fsVars, pathFault, keys, keysWithUsername,
                   fileExists, existingKeys, muts, log, damaged, callFrame>>

\* mutant: a failed read is taken for an empty file
RemoveReadIgnoresError ==
    /\ pc = "rm_read"
    /\ IF pathFault \/ ~fsFile
       THEN Return("read failed", "Failed", stdout) /\ UNCHANGED existingKeys
       ELSE \E readOk \in BOOLEAN :
              /\ existingKeys' = IF readOk THEN fsContent ELSE <<>>
              /\ Continue("rm_write", stdout)
    /\ UNCHANGED <<fsVars, pathFault, keys, keysWithUsername,
                   fileExists, stdinReader, asked, heard, muts, log, damaged, callFrame>>

\* os.ReadFile(authorizedKeysPath)
RemoveRead ==
    /\ pc = "rm_read"
    /\ IF pathFault \/ ~fsFile
       THEN Return("read failed", "Failed", stdout) /\ UNCHANGED existingKeys
       ELSE \E readOk \in BOOLEAN :
              IF readOk
              THEN existingKeys' = fsContent /\ Continue("rm_write", stdout)
              ELSE Return("read failed", "Failed", stdout) /\ UNCHANGED existingKeys
    /\ UNCHANGED <<fsVars, pathFault, keys, keysWithUsername,
                   fileExists, stdinReader, asked, heard, muts, log, damaged, callFrame>>

\* mutant: the lines dropped are those of the fetched, tagged block
RemoveWriteMatchingBlock ==
    /\ pc = "rm_write"
    /\ LET block == Split(keysWithUsername)
           NotFetched(l) == \A i \in 1..Len(block) : block[i] # l
           newKeys == Join(SelectSeq(Split(existingKeys), NotFetched))
       IN  \E w \in WriteFileOutcomes(newKeys) :
             /\ fsFile' = w.file
             /\ fsContent' = w.content
             /\ fsFileMode' = w.mode
             /\ muts' = IF w.wrote
                        THEN Append(muts, IF fsFile THEN "truncate" ELSE "create")
                        ELSE muts
             /\ IF w.err = "nil"
                THEN /\ Return("nil", "Done", stdout)
                     /\ log' = Append(log, [op |-> "remove", id |-> username,
                                            block |-> newKeys])
                ELSE /\ Return(w.err, "Failed", stdout)
                     /\ UNCHANGED log
             /\ damaged' = (damaged \/ (w.wrote /\ w.err # "nil"))
    /\ UNCHANGED <<fsDir, fsDirMode, pathFault, keys, keysWithUsername,
                   fileExists, existingKeys, stdinReader, asked, heard, callFrame>>

\* removeKeysByUsername and os.WriteFile(authorizedKeysPath, newKeys, 0600)
RemoveWrite ==
    /\ pc = "rm_write"
    /\ LET newKeys == removeKeysByUsername(existingKeys, username)
       IN  \E w \in WriteFileOutcomes(newKeys) :
             /\ fsFile' = w.file
             /\ fsContent' = w.content
             /\ fsFileMode' = w.mode
             /\ muts' = IF w.wrote
                        THEN Append(muts, IF fsFile THEN "truncate" ELSE "create")
                        ELSE muts
             /\ IF w.err = "nil"
                THEN /\ Return("nil", "Done", stdout)
                     /\ log' = Append(log, [op |-> "remove", id |-> username,
                                            block |-> newKeys])
                ELSE /\ Return(w.err, "Failed", stdout)
                     /\ UNCHANGED log
             /\ damaged' = (damaged \/ (w.wrote /\ w.err # "nil"))
    /\ UNCHANGED <<fsDir, fsDirMode, pathFault, keys, keysWithUsername,
                   fileExists, existingKeys, stdinReader, asked, heard, callFrame>>

Next ==
    \/ \E a \in ArgLists : Start(a)
    \/ RunEntry
    \/ AddResolve
    \/ AddConfirmCreate
    \/ AddConfirmWrite
    \/ AddEnsureDir
    \/ AddOpen
    \/ AddWriteSeparator
    \/ AddWriteBlock
    \/ AddWriteFile
    \/ RemoveResolve
    \/ RemoveConfirm
    \/ RemoveRead
    \/ RemoveWrite

\* one invocation, from any file system state, with every failure
Spec == Init /\ [][Next]_vars

\* invocations one after the other; here a write completes or fails before it
\* wrote anything
SeqInit ==
    /\ PureIdle
    /\ FsInit(ForeignContents)
    /\ mayShort = FALSE
    /\ ProgInit

SeqNext == Next \/ \E a \in ArgLists : Restart(a)

SpecSeq == SeqInit /\ [][SeqNext]_vars

\* one invocation that is not held up: the program is sequential, every call
\* it makes returns (a read of stdin returns a line, end-of-file or an error),
\* so a step that can be taken is taken
LiveInit ==
    /\ PureIdle
    /\ FsInit(ForeignContents)
    /\ mayShort = TRUE
    /\ ProgInit

SpecLive == LiveInit /\ [][Next]_vars /\ WF_vars(Next)

\* the pure functions on enumerated inputs, and the invocations one after the
\* other
BothInit == PureInit \/ SeqInit

BothNext ==
    \/ pStage # "off" /\ PureNext
    \/ pStage = "off" /\ SeqNext

SpecBoth == BothInit /\ [][BothNext]_vars

(***************************************************************************)
(* Properties.                                                             *)
(***************************************************************************)
Range(q) == {q[i] : i \in 1..Len(q)}
Last(q) == q[Len(q)]

\* a is b with some elements left out
RECURSIVE IsSubseq(_, _)
IsSubseq(a, b) ==
    IF a = <<>> THEN TRUE
    ELSE IF b = <<>> THEN FALSE
    ELSE IF Head(a) = Head(b) THEN IsSubseq(Tail(a), Tail(b))
    ELSE IsSubseq(a, Tail(b))

\* the lines of S that do not end in " " + I, in their order
KeptLines(S, I) ==
    LET Keep(l) == ~HasSuffix(l, <<SP>> \o I)
    IN  SelectSeq(Split(S), Keep)

\* the lines of S that end in " " + I, in their order
OwnedLines(S, I) ==
    LET Owned(l) == HasSuffix(l, <<SP>> \o I)
    IN  SelectSeq(Split(S), Owned)

\* the lines the completed Adds of lg appended, in their order, for identity I
\* (same) or for the other identities (~same)
RECURSIVE LinesOfAdds(_, _, _)
LinesOfAdds(lg, I, same) ==
    IF lg = <<>> THEN <<>>
    ELSE (IF Head(lg).op = "add" /\ ((Head(lg).id = I) = same)
          THEN Split(Head(lg).block) ELSE <<>>)
         \o LinesOfAdds(Tail(lg), I, same)

\* a process with a well-formed command line has been started
InCall == pc # "idle" /\ Len(args) = 3

Yes(name) == [prompt |-> name, yes |-> TRUE, err |-> "nil"]

\* C1: removeKeysByUsername(S, I) is exactly the lines of S that do not end in
\* " " + I (the untrimmed line is tested), in their order, joined by single
\* newlines: splitting the result gives those lines back, nothing else.
C1_FilterExact ==
    pStage = "filtered" =>
        LET kept == KeptLines(pIn, pId)
        IN  /\ pOut = Join(kept)
            /\ kept # <<>> => Split(pOut) = kept
            /\ kept = <<>> => pOut = <<>>

C1_Witness ==
    /\ pStage = "filtered"
    /\ pId = <<"b">>
    /\ Len(Split(pIn)) = 3
    /\ Len(KeptLines(pIn, pId)) = 2

\* C2: for non-empty, whitespace-free identities I # J, filtering with J keeps
\* every line that ends in " " + I, also when one identity is a prefix or a
\* suffix of the other.
C2_ExactSuffix ==
    (pStage = "filtered" /\ pId # <<>> /\ WhitespaceFree(pId)) =>
        \A I \in PureIds :
            (I # <<>> /\ WhitespaceFree(I) /\ I # pId) =>
                OwnedLines(pOut, I) = OwnedLines(pIn, I)

C2_Witness ==
    /\ pStage = "filtered"
    /\ pId = <<"b">>
    /\ OwnedLines(pIn, <<"a", "b">>) # <<>>
    /\ pOut = pIn

\* C3: from an absent or empty file, after completed Adds and then a completed
\* Remove(I), no line of the file is a line an Add for I appended, and the lines
\* the Adds for the other identities appended are all there, in their order.
C3_Isolation ==
    ( /\ pc = "exited"
      /\ outcome = "Done"
      /\ action = "remove"
      /\ \A i \in 1..(Len(log) - 1) : log[i].op = "add"
      /\ (~fs0.file \/ fs0.content = <<>>)
      /\ ~damaged ) =>
        LET lines == Split(fsContent)
        IN  /\ Range(lines) \cap Range(LinesOfAdds(log, username, TRUE)) = {}
            /\ IsSubseq(LinesOfAdds(log, username, FALSE), lines)

C3_Witness ==
    /\ pc = "exited"
    /\ outcome = "Done"
    /\ ~fs0.file
    /\ ~damaged
    /\ Len(log) = 3
    /\ log[1].op = "add" /\ log[1].id = <<"a", "b">> /\ Len(Split(log[1].block)) = 2
    /\ log[2].op = "add" /\ log[2].id = <<"b">>
    /\ log[3].op = "remove" /\ log[3].id = <<"b">>

\* C4: appendUsernameToKeys(B, I) is the newline-join, in order, of
\* trim(L) + " " + I for the lines L of B that are not blank; a blank B gives
\* the empty block.
C4_TagExact ==
    pStage = "tagged" =>
        LET NonBlank(l) == TrimSpace(l) # <<>>
            kept == SelectSeq(Split(pIn), NonBlank)
            tagged == [i \in 1..Len(kept) |-> TrimSpace(kept[i]) \o <<SP>> \o pId]
        IN  /\ pOut = Join(tagged)
            /\ TrimSpace(pIn) = <<>> => pOut = <<>>

C4_Witness ==
    /\ pStage = "tagged"
    /\ pId = <<"b">>
    /\ Len(Split(pIn)) = 3
    /\ pIn[1] = SP
    /\ Len(Split(pOut)) = 2

\* C5: an Add on an absent file that completes was confirmed twice (create,
\* then write) and leaves the file existing, with mode 0600 and the tagged
\* block as its whole content, with no newline in front.
C5_AddNewFile ==
    (pc = "exited" /\ outcome = "Done" /\ action = "add" /\ ~pre.file) =>
        /\ asked = <<Yes("create"), Yes("write")>>
        /\ fsFile
        /\ fsFileMode = Perm0600
        /\ fsContent = appendUsernameToKeys(keys, username)
        /\ fsContent # <<>> /\ Head(fsContent) # NL

C5_Witness ==
    /\ pc = "exited"
    /\ outcome = "Done"
    /\ action = "add"
    /\ ~pre.file
    /\ ~pre.dir
    /\ Len(Split(fsContent)) = 2

\* C6: an Add on an existing file asks one confirmation only, and when it
\* completes the content is old + "\n" + block for a non-empty old content and
\* the block alone for an empty one; the old bytes are a prefix and no line
\* holds old and new text.
C6_AddExistingFile ==
    (InCall /\ action = "add" /\ pre.file) =>
        /\ Len(asked) <= 1
        /\ \A i \in 1..Len(asked) : asked[i].prompt = "write"
        /\ (pc = "exited" /\ outcome = "Done") =>
              LET block == appendUsernameToKeys(keys, username)
              IN  /\ asked = <<Yes("write")>>
                  /\ fsContent = IF pre.content # <<>>
                                 THEN pre.content \o <<NL>> \o block
                                 ELSE block
                  /\ HasPrefix(fsContent, pre.content)
                  /\ pre.content # <<>> =>
                        Split(fsContent) = Split(pre.content) \o Split(block)

C6_Witness ==
    /\ pc = "exited"
    /\ outcome = "Done"
    /\ action = "add"
    /\ pre.file
    /\ pre.content = <<"k", SP, "b">>
    /\ Len(Split(fsContent)) = 3

\* C7: during and after an Add on an existing file the content before the call
\* is a prefix of the content, also when a write fails part-way.
C7_AppendOnly ==
    (InCall /\ action = "add" /\ pre.file) =>
        /\ fsFile
        /\ HasPrefix(fsContent, pre.content)

C7_Witness ==
    /\ pc = "exited"
    /\ InCall
    /\ action = "add"
    /\ pre.file
    /\ pre.content # <<>>
    /\ outcome = "Failed"
    /\ err = "short write"
    /\ Len(fsContent) > Len(pre.content) + 1

\* C8: a declined prompt ends the operation with success and with the file
\* system as it was before the call.
C8_DeclineChangesNothing ==
    (pc = "exited" /\ asked # <<>> /\ Last(asked).err = "nil" /\ ~Last(asked).yes) =>
        /\ outcome = "Aborted"
        /\ err = "nil"
        /\ runErr = NoError
        /\ exit = "returned"
        /\ muts = <<>>
        /\ Snapshot = pre

C8_Witness ==
    /\ pc = "exited"
    /\ ~pre.dir
    /\ Len(asked) = 2
    /\ asked[1] = Yes("create")
    /\ asked[2].prompt = "write" /\ ~asked[2].yes /\ asked[2].err = "nil"

\* the confirmations a path needs before it may change the file system
RequiredConfirmations ==
    IF action = "add"
    THEN (IF pre.file THEN <<"write">> ELSE <<"create", "write">>)
    ELSE <<"remove">>

\* C9: the file system is changed only after every confirmation of the path
\* was answered yes, in order: create and write for Add on an absent file, write
\* for Add on an existing file, remove for Remove; and no path asks more.
C9_ConfirmationGate ==
    /\ ~InCall => (muts = <<>> /\ asked = <<>>)
    /\ InCall =>
         /\ Len(asked) <= Len(RequiredConfirmations)
         /\ muts # <<>> =>
              asked = [i \in 1..Len(RequiredConfirmations) |->
                         Yes(RequiredConfirmations[i])]

C9_Witness ==
    /\ pc = "exited"
    /\ muts = <<"mkdir", "create">>
    /\ asked = <<Yes("create"), Yes("write")>>

\* C10: a Remove on an existing file that completes leaves exactly
\* removeKeysByUsername(old content, I) as the content: the lines of the old
\* content that do not end in " " + I, and nothing before or after them.
C10_RemoveOverwrites ==
    (pc = "exited" /\ outcome = "Done" /\ action = "remove" /\ pre.file) =>
        /\ asked = <<Yes("remove")>>
        /\ fsFile
        /\ fsContent = removeKeysByUsername(pre.content, username)
        /\ fsContent = Join(KeptLines(pre.content, username))

C10_Witness ==
    /\ pc = "exited"
    /\ outcome = "Done"
    /\ action = "remove"
    /\ username = <<"a", "b">>
    /\ pre.content = <<"k", SP, "a", "b", NL, "j", SP, "b", NL, "m">>
    /\ fsContent = <<"j", SP, "b", NL, "m">>

\* the line msg was printed
Printed(msg) == \E i \in 1..Len(stdout) : stdout[i].msg = msg

\* C11: a Remove when there is no credential file never creates the file or the
\* directory, on any path; and when the path is resolved and os.Stat reports
\* the file missing, it asks nothing, prints the 'does not exist' line and
\* returns success.
C11_RemoveNoFile ==
    (InCall /\ action = "remove" /\ ~pre.file) =>
        /\ ~fsFile
        /\ muts = <<>>
        /\ Snapshot = pre
        /\ (pc = "exited" /\ outcome # "none" /\ err # "user: lookup failed"
               /\ ~pathFault) =>
              /\ outcome = "NoOp"
              /\ err = "nil"
              /\ runErr = NoError
              /\ exit = "returned"
              /\ asked = <<>>
              /\ ~stdinReader.open
              /\ Printed("The authorized_keys file does not exist.")
              /\ ~Printed("Keys to be removed:")

C11_Witness ==
    /\ pc = "exited"
    /\ InCall
    /\ action = "remove"
    /\ ~pre.file
    /\ ~pre.dir
    /\ outcome = "NoOp"
    /\ ~fsFile
    /\ ~fsDir

\* C12: no step removes the credential file: if it exists before a step it
\* exists after it, whatever the invocations before were (completed, declined
\* or failed); and the step that completes a Remove filtering out every line
\* leaves the file existing and empty.
C12_NeverDeleted ==
    [][ /\ fsFile => fsFile'
        /\ (pc # "exited" /\ pc' = "exited" /\ outcome' = "Done"
               /\ action = "remove"
               /\ KeptLines(pre.content, username) = <<>>) =>
              (fsFile' /\ fsContent' = <<>>) ]_vars

C12_Witness ==
    /\ pc = "exited"
    /\ runs = 2
    /\ fs0.file
    /\ fs0.content = <<"k", SP, "b">>
    /\ Len(log) = 1
    /\ log[1].op = "remove"
    /\ log[1].block = <<>>
    /\ pre.file
    /\ pre.content = <<>>
    /\ fsFile
    /\ fsContent = <<>>

\* C13: filtering a filtered content again with the same identity changes
\* nothing, also when the first pass left the empty content; and a completed
\* Remove(I) on the content a completed Remove(I) left leaves that content.
C13_FilterIdempotent ==
    /\ pStage = "refiltered" => pOut = removeKeysByUsername(pIn, pId)
    /\ (pc = "exited" /\ outcome = "Done" /\ action = "remove" /\ Len(log) >= 2) =>
          LET before == log[Len(log) - 1]
          IN  (before.op = "remove" /\ before.id = username
                 /\ pre.content = before.block) =>
                  fsContent = pre.content

C13_Witness ==
    /\ pStage = "refiltered"
    /\ pId = <<"b">>
    /\ Len(Split(pIn)) = 2
    /\ KeptLines(pIn, pId) = <<>>
    /\ pOut = <<>>

\* a second completed Remove of the same identity, the first having dropped a
\* line
C13_SecondRemove ==
    /\ pc = "exited"
    /\ outcome = "Done"
    /\ runs = 2
    /\ Len(log) = 2
    /\ log[1].op = "remove" /\ log[2].op = "remove"
    /\ log[1].id = <<"b">> /\ log[2].id = <<"b">>
    /\ fs0.content # log[1].block
    /\ fsContent = log[1].block

\* the key source did not deliver: transport error, status other than 200, or
\* the body could not be read
SourceFailed ==
    \/ response.transport # "nil"
    \/ response.status # 200
    \/ response.read # "nil"

\* the key source delivered nothing but white space
SourceBlank ==
    /\ ~SourceFailed
    /\ \A i \in 1..Len(response.body) : IsSpace(response.body[i])

\* C14: once the key source has failed or delivered an empty or blank body,
\* for add and for remove, the process has ended with the fetch error or the
\* 'no public keys found' error: there is no state in which it goes on, so no
\* prompt is issued, the keys are not tagged, the file is neither examined nor
\* read, and the file and the directory are as they were.
C14_FetchFailureFirst ==
    (InCall /\ action \in {"add", "remove"} /\ response # NoResponse
       /\ (SourceFailed \/ SourceBlank)) =>
        /\ pc = "exited"
        /\ runErr.wrap = IF SourceFailed THEN "error fetching keys"
                         ELSE "no public keys found for user"
        /\ exit = "1"
        /\ stdout = <<Say(runErr.wrap)>>
        /\ asked = <<>>
        /\ ~stdinReader.open
        /\ outcome = "none"
        /\ keysWithUsername = <<>>
        /\ existingKeys = <<>>
        /\ muts = <<>>
        /\ Snapshot = pre

C14_Witness ==
    /\ pc = "exited"
    /\ InCall
    /\ action = "remove"
    /\ response.status = 200
    /\ response.body = BlankBlob
    /\ pre.file
    /\ pre.content # <<>>
    /\ runErr.wrap = "no public keys found for user"

\* line is the word yes in any case between white space
IsYes(line) ==
    \E a \in 0..Len(line) :
        /\ a + 3 <= Len(line)
        /\ \A k \in 1..a : IsSpace(line[k])
        /\ line[a + 1] \in {"y", "Y"}
        /\ line[a + 2] \in {"e", "E"}
        /\ line[a + 3] \in {"s", "S"}
        /\ \A k \in (a + 4)..Len(line) : IsSpace(line[k])

\* C15: promptConfirmation reads up to and including the first newline, or to
\* the end of the stream; it returns an error exactly when the stream fails
\* before a newline, and otherwise true exactly when the line is the word yes,
\* in any case, with white space around it only.
C15_YesOnly ==
    pStage = "answered" =>
        LET buf == pIn.buf
            newlines == {i \in 1..Len(buf) : buf[i] = NL}
            end == IF newlines = {} THEN Len(buf)
                   ELSE CHOOSE i \in newlines : \A j \in newlines : i <= j
            line == SubSeq(buf, 1, end)
            failed == newlines = {} /\ pIn.fail
        IN  /\ failed => (pOut.err # "nil" /\ ~pOut.confirmed)
            /\ ~failed => (pOut.err = "nil" /\ (pOut.confirmed <=> IsYes(line)))
            /\ pOut.reader.buf = SubSeq(buf, end + 1, Len(buf))

C15_Witness ==
    /\ pStage = "answered"
    /\ pIn.buf = <<TAB, "Y", "E", "S", SP, CR, NL>>
    /\ ~pIn.fail
    /\ pOut.confirmed
    /\ pOut.err = "nil"

\* C16: when the answer to a prompt cannot be read (the create prompt, the write
\* prompt or the remove prompt), the operation has ended Failed, the error
\* returned is the read error, main exits with 1, and the file and the
\* directory are as they were before the call.
C16_PromptErrorFails ==
    (asked # <<>> /\ Last(asked).err # "nil") =>
        /\ pc = "exited"
        /\ outcome = "Failed"
        /\ err = Last(asked).err
        /\ runErr.cause = Last(asked).err
        /\ runErr.wrap = IF action = "add"
                         THEN "error adding keys to authorized_keys"
                         ELSE "error removing keys from authorized_keys"
        /\ exit = "1"
        /\ ~Printed("Operation aborted.")
        /\ muts = <<>>
        /\ Snapshot = pre

C16_Witness ==
    /\ pc = "exited"
    /\ ~pre.file
    /\ ~pre.dir
    /\ Len(asked) = 2
    /\ asked[1] = Yes("create")
    /\ asked[2].prompt = "write" /\ asked[2].err = "read error"
    /\ outcome = "Failed"

\* the answer to the create prompt could not be read
C16_CreatePromptError ==
    /\ pc = "exited"
    /\ Len(asked) = 1
    /\ asked[1].prompt = "create" /\ asked[1].err = "read error"

\* the answer to the remove prompt could not be read
C16_RemovePromptError ==
    /\ pc = "exited"
    /\ pre.file
    /\ Len(asked) = 1
    /\ asked[1].prompt = "remove" /\ asked[1].err = "read error"

\* n copies of block, one below the other
RECURSIVE Copies(_, _)
Copies(block, n) ==
    IF n = 0 THEN <<>>
    ELSE IF n = 1 THEN block
    ELSE block \o <<NL>> \o Copies(block, n - 1)

\* how many of lines are the line l
Count(lines, l) == Cardinality({i \in 1..Len(lines) : lines[i] = l})

\* C17: from an absent or empty file, when every invocation so far was a
\* completed Add of the same blob for the same identity, the content is the
\* tagged block once per Add, the copies one below the other: nothing is
\* deduplicated, and every tagged line is there as many times as there were
\* Adds.
C17_AddDuplicates ==
    ( /\ pc = "exited"
      /\ outcome = "Done"
      /\ action = "add"
      /\ (~fs0.file \/ fs0.content = <<>>)
      /\ Len(log) = runs
      /\ \A i \in 1..Len(log) :
            /\ log[i].op = "add"
            /\ log[i].id = username
            /\ log[i].block = keysWithUsername ) =>
        /\ keysWithUsername = appendUsernameToKeys(keys, username)
        /\ fsContent = Copies(keysWithUsername, runs)
        /\ \A l \in Range(Split(keysWithUsername)) :
              Count(Split(fsContent), l) = runs * Count(Split(keysWithUsername), l)

C17_Witness ==
    /\ pc = "exited"
    /\ outcome = "Done"
    /\ runs = 2
    /\ ~fs0.file
    /\ Len(log) = 2
    /\ log[1].op = "add" /\ log[2].op = "add"
    /\ log[1].id = <<"b">> /\ log[2].id = <<"b">>
    /\ log[1].block = log[2].block
    /\ Len(Split(log[1].block)) = 2
    /\ Len(Split(fsContent)) = 4

\* three completed Adds of the same blob on a file that was there and empty
C17_ThreeCopies ==
    /\ pc = "exited"
    /\ outcome = "Done"
    /\ runs = 3
    /\ fs0.file
    /\ Len(log) = 3
    /\ \A i \in 1..3 : log[i] = [op |-> "add", id |-> <<"b">>, block |-> <<"k", SP, "b">>]
    /\ Len(Split(fsContent)) = 3

\* run reported success
SuccessReported ==
    Printed("Keys added successfully!") \/ Printed("Keys removed successfully!")

\* C18: an invocation that ends Aborted or NoOp returns success, and the
\* success report of run is printed only when the operation completed its
\* write, never after 'Operation aborted.' or 'The authorized_keys file does
\* not exist.'.
C18_SuccessOnlyAfterChange ==
    (pc = "exited" /\ InCall) =>
        /\ outcome \in {"Aborted", "NoOp"} => (runErr = NoError /\ exit = "returned")
        /\ SuccessReported =>
              /\ outcome = "Done"
              /\ muts # <<>>
              /\ ~Printed("Operation aborted.")
              /\ ~Printed("The authorized_keys file does not exist.")

\* a declined Add on an existing file, reported as a success
C18_Witness ==
    /\ pc = "exited"
    /\ InCall
    /\ action = "add"
    /\ pre.file
    /\ outcome = "Aborted"
    /\ Snapshot = pre
    /\ Len(stdout) >= 2
    /\ stdout[Len(stdout) - 1] = Say("Operation aborted.")
    /\ Last(stdout) = Say("Keys added successfully!")

\* what run does report: success whenever the operation returned no error
C18_ReportFollowsNilError ==
    (pc = "exited" /\ InCall /\ outcome # "none") =>
        /\ SuccessReported <=> outcome \in {"Done", "Aborted", "NoOp"}
        /\ SuccessReported <=> err = "nil"
        /\ outcome \in {"Aborted", "NoOp"} => (runErr = NoError /\ exit = "returned")

\* a Remove with no file, reported as a success
C18_NoOpReported ==
    /\ pc = "exited"
    /\ outcome = "NoOp"
    /\ stdout = <<Say("The authorized_keys file does not exist."),
                  Say("Keys removed successfully!")>>

\* the command line names no action of the program
UnknownAction == Len(args) = 3 /\ action \notin {"add", "remove"}

\* C19: run returns 'invalid arguments' for every argument list whose length is
\* not 3 and 'invalid action' for every action other than add and remove,
\* whatever the key source answers, with no prompt and no change of the file
\* system; and main exits with 1 exactly when run returned an error.
C19_UsageErrors ==
    pc = "exited" =>
        /\ Len(args) # 3 => runErr.wrap = "invalid arguments"
        /\ UnknownAction => runErr.wrap = "invalid action"
        /\ (Len(args) # 3 \/ UnknownAction) =>
              (asked = <<>> /\ ~stdinReader.open /\ muts = <<>> /\ Snapshot = pre)
        /\ exit = "1" <=> runErr # NoError
        /\ exit = "returned" <=> runErr = NoError

\* an unknown action while the key source is down: the fetch error is returned
C19_Witness ==
    /\ pc = "exited"
    /\ UnknownAction
    /\ response.transport = "refused"
    /\ runErr = [wrap |-> "error fetching keys", cause |-> "refused"]
    /\ exit = "1"

\* what run does return: the keys are fetched and looked at before the action
\* is, so an unknown action is reported only when keys were delivered
C19_UsageAfterFetch ==
    pc = "exited" =>
        /\ Len(args) # 3 => (runErr.wrap = "invalid arguments" /\ response = NoResponse)
        /\ UnknownAction =>
              runErr.wrap = IF SourceFailed THEN "error fetching keys"
                            ELSE IF SourceBlank THEN "no public keys found for user"
                            ELSE "invalid action"
        /\ (Len(args) # 3 \/ UnknownAction) =>
              (asked = <<>> /\ ~stdinReader.open /\ muts = <<>> /\ Snapshot = pre
                 /\ runErr # NoError)
        /\ exit = "1" <=> runErr # NoError
        /\ exit = "returned" <=> runErr = NoError

\* an unknown action reported as such
C19_InvalidActionReported ==
    /\ pc = "exited"
    /\ UnknownAction
    /\ runErr.wrap = "invalid action"

\* how a Remove ends, from the answers given and the error met alone
RemoveOutcome(answers, e) ==
    IF e # "nil" THEN "Failed"
    ELSE IF answers = <<>> THEN "NoOp"
    ELSE IF ~Last(answers).yes THEN "Aborted"
    ELSE "Done"

\* C20: how a Remove ends and what it leaves in the file are given by the
\* file before the call, the identity, the answers and the I/O errors met,
\* whatever keys were fetched: two Removes that differ in the blob alone end
\* alike.  The fetched keys are found in the displayed text only.
C20_RemoveIgnoresBlob ==
    (pc = "exited" /\ InCall /\ action = "remove" /\ outcome # "none") =>
        LET filtered == Join(KeptLines(pre.content, username))
        IN  /\ outcome = RemoveOutcome(asked, err)
            /\ outcome \in {"NoOp", "Aborted"} => Snapshot = pre
            /\ outcome = "Done" =>
                  Snapshot = [pre EXCEPT !.content = filtered]
            /\ outcome = "Failed" =>
                  \/ Snapshot = pre
                  \/ /\ err = "short write"
                     /\ HasPrefix(filtered, fsContent)
                     /\ Snapshot = [pre EXCEPT !.content = fsContent]
            /\ \A i \in 1..Len(stdout) :
                  stdout[i].text # <<>> =>
                      /\ stdout[i].msg = "Keys to be removed:"
                      /\ stdout[i].text = appendUsernameToKeys(response.body, username)

\* a completed Remove drops a line the fetched keys do not hold
C20_Witness ==
    /\ pc = "exited"
    /\ outcome = "Done"
    /\ action = "remove"
    /\ username = <<"b">>
    /\ response.body = <<"k">>
    /\ pre.content = <<"j", SP, "b", NL>>
    /\ fsContent = <<>>

\* the prompt of the final confirmation and the heading of the display
FinalPrompt ==
    IF action = "add" THEN "Do you want to add these keys? (yes/no): "
    ELSE "Do you want to remove these keys? (yes/no): "

DisplayHeading ==
    IF action = "add" THEN "Keys to be added:" ELSE "Keys to be removed:"

CreatePrompt ==
    "The authorized_keys file does not exist. Do you want to create it? (yes/no): "

\* C21: in the output, the final confirmation prompt comes directly after the
\* display of the tagged block; nothing is changed before the block was
\* displayed; and when Add found no file, the block is displayed only after
\* the create prompt, answered yes, and never when that answer was no.
C21_DisplayBeforeConsent ==
    (InCall /\ action \in {"add", "remove"}) =>
        LET display == Show(DisplayHeading, appendUsernameToKeys(keys, username))
        IN  /\ \A i \in 1..Len(stdout) :
                  stdout[i].msg = FinalPrompt =>
                      (i > 1 /\ stdout[i - 1] = display)
            /\ (\E i \in 1..Len(asked) : asked[i].prompt \in {"write", "remove"}) =>
                  (Printed(DisplayHeading) /\ Printed(FinalPrompt))
            /\ muts # <<>> => Printed(DisplayHeading)
            /\ (action = "add" /\ ~fileExists /\ Printed(DisplayHeading)) =>
                  /\ asked # <<>>
                  /\ asked[1] = Yes("create")
                  /\ stdout[1] = Say(CreatePrompt)
                  /\ stdout[2] = display
            /\ (asked # <<>> /\ asked[1].prompt = "create" /\ ~asked[1].yes) =>
                  ~Printed(DisplayHeading)

C21_Witness ==
    /\ pc = "exited"
    /\ InCall
    /\ action = "add"
    /\ ~pre.file
    /\ asked = <<Yes("create"), Yes("write")>>
    /\ muts # <<>>
    /\ Len(stdout) >= 3
    /\ stdout[1].msg = CreatePrompt
    /\ stdout[2].msg = "Keys to be added:"
    /\ Len(Split(stdout[2].text)) = 2
    /\ stdout[3].msg = FinalPrompt

\* the create prompt answered no: nothing was displayed
C21_CreateDeclined ==
    /\ pc = "exited"
    /\ asked # <<>>
    /\ asked[1].prompt = "create"
    /\ ~asked[1].yes
    /\ asked[1].err = "nil"
    /\ stdout[1].msg = CreatePrompt

\* the file, without the directory
FileOf(snap) == [file |-> snap.file, content |-> snap.content, mode |-> snap.mode]

\* C22: in Add the directory is ensured after the final confirmation was
\* answered yes and before any write to the file: a directory that was there
\* is left as it was, a missing one is created with mode 0700 as the first
\* change of the call, and when ensuring fails Add ends Failed with that
\* error and the file is neither created nor changed.
C22_EnsureDir ==
    (InCall /\ action = "add") =>
        /\ pc = "add_ensure" => (Last(asked) = Yes("write") /\ muts = <<>>)
        /\ pre.dir => (fsDir /\ fsDirMode = pre.dirMode /\ "mkdir" \notin Range(muts))
        /\ "mkdir" \in Range(muts) =>
              /\ ~pre.dir
              /\ muts[1] = "mkdir"
              /\ \A i \in 2..Len(muts) : muts[i] # "mkdir"
              /\ fsDir
              /\ fsDirMode = Perm0700
              /\ Last(asked) = Yes("write")
        /\ (\E i \in 1..Len(muts) : muts[i] # "mkdir") => fsDir
        /\ (~pre.dir /\ ~fsDir) => Snapshot = pre
        /\ (pc = "exited" /\ asked # <<>> /\ Last(asked) = Yes("write")
               /\ err \in {"mkdir failed", "user: lookup failed"}) =>
              /\ outcome = "Failed"
              /\ runErr.cause = err
              /\ exit = "1"
              /\ FileOf(Snapshot) = FileOf(pre)
              /\ muts = <<>>

C22_Witness ==
    /\ pc = "exited"
    /\ InCall
    /\ action = "add"
    /\ ~pre.file
    /\ ~pre.dir
    /\ asked = <<Yes("create"), Yes("write")>>
    /\ err = "mkdir failed"
    /\ outcome = "Failed"
    /\ ~fsFile
    /\ ~fsDir

\* the directory was missing and was created, then the file
C22_DirCreated ==
    /\ pc = "exited"
    /\ outcome = "Done"
    /\ ~pre.dir
    /\ fsDir
    /\ fsDirMode = Perm0700
    /\ muts = <<"mkdir", "create">>

\* C23: a Remove writes the file at most once, and only after it has read the
\* whole of it: what it writes is the filtered content of what it read, or a
\* prefix of that when the write fails; when the read fails the Remove ends
\* Failed with the read error and the file is as it was.
C23_ReadThenSingleWrite ==
    (InCall /\ action = "remove") =>
        /\ Len(muts) <= 1
        /\ pc = "rm_read" => (muts = <<>> /\ Snapshot = pre)
        /\ pc = "rm_write" =>
              (muts = <<>> /\ Snapshot = pre /\ existingKeys = pre.content)
        /\ muts # <<>> =>
              /\ muts = <<"truncate">>
              /\ pc = "exited"
              /\ pre.file
              /\ asked = <<Yes("remove")>>
              /\ existingKeys = pre.content
              /\ HasPrefix(Join(KeptLines(existingKeys, username)), fsContent)
              /\ err # "read failed"
        /\ err = "read failed" =>
              /\ pc = "exited"
              /\ outcome = "Failed"
              /\ runErr = [wrap |-> "error removing keys from authorized_keys",
                           cause |-> "read failed"]
              /\ exit = "1"
              /\ muts = <<>>
              /\ Snapshot = pre

C23_Witness ==
    /\ pc = "exited"
    /\ InCall
    /\ action = "remove"
    /\ pre.file
    /\ pre.content = <<"k", SP, "b">>
    /\ username = <<"b">>
    /\ ~pathFault
    /\ asked = <<Yes("remove")>>
    /\ err = "read failed"
    /\ fsContent = pre.content

\* the one write of a completed Remove
C23_SingleWrite ==
    /\ pc = "exited"
    /\ outcome = "Done"
    /\ action = "remove"
    /\ muts = <<"truncate">>
    /\ existingKeys = <<"k", SP, "a", "b", NL, "j", SP, "b", NL, "m">>
    /\ Len(Split(fsContent)) = 2

\* the place of a step in the program text: main, run, then the statements of
\* confirmAndAddKeys or of confirmAndRemoveKeys, then the exit
Rank(p) ==
    CASE p = "idle" -> 0
      [] p = "run" -> 1
      [] p \in {"add", "remove"} -> 2
      [] p \in {"add_create", "rm_confirm"} -> 3
      [] p \in {"add_display", "rm_read"} -> 4
      [] p \in {"add_ensure", "rm_write"} -> 5
      [] p = "add_open" -> 6
      [] p = "add_sep" -> 7
      [] p = "add_block" -> 8
      [] p = "add_writefile" -> 9
      [] p = "exited" -> 10

\* how an Add or a Remove has ended
C24_OneOutcome ==
    (pc = "exited" /\ InCall /\ outcome # "none") =>
        /\ outcome \in {"Done", "Aborted", "NoOp", "Failed"}
        /\ Len(asked) <= (IF action = "add" THEN 2 ELSE 1)
        /\ outcome \in {"Done", "Aborted", "NoOp"} <=> err = "nil"
        /\ err = "nil" <=> (runErr = NoError /\ exit = "returned")
        /\ outcome = "Failed" <=> (runErr.cause = err /\ err # "nil" /\ exit = "1")
        /\ outcome = "Done" =>
              /\ ~pathFault
              /\ asked # <<>>
              /\ \A i \in 1..Len(asked) : asked[i].yes /\ asked[i].err = "nil"
              /\ fsFile
              /\ fsDir
              /\ IF action = "add"
                 THEN HasSuffix(fsContent, appendUsernameToKeys(keys, username))
                 ELSE fsContent = Join(KeptLines(pre.content, username))
        /\ outcome \in {"Aborted", "NoOp"} => Snapshot = pre

\* C24: every invocation that is started ends; every step moves forward in the
\* program text, so no step is taken twice and none is retried; an Add has
\* asked at most twice and a Remove at most once; and it has ended in one
\* outcome: Done, Aborted or NoOp with a nil error, or Failed with the cause as
\* the error, Done only when no call failed and the write was complete.
C24_Terminates ==
    /\ []C24_OneOutcome
    /\ [][Rank(pc') > Rank(pc)]_vars
    /\ (pc = "run") ~> (pc = "exited")

C24_Witness ==
    /\ pc = "exited"
    /\ InCall
    /\ action = "add"
    /\ ~pre.file
    /\ asked = <<Yes("create"), Yes("write")>>
    /\ outcome = "Failed"
    /\ err = "short write"
    /\ runErr.cause = "short write"
    /\ fsFile

\* a Remove that ended Failed at its write
C24_RemoveFailed ==
    /\ pc = "exited"
    /\ InCall
    /\ action = "remove"
    /\ outcome = "Failed"
    /\ err = "open failed"
    /\ Len(asked) = 1

\* C25: on an existing file whose content S has no line ending in " " + I, a
\* completed Add for I followed by a completed Remove for I leaves exactly S,
\* also when S is empty or ends in a newline: for the contents the
\* invocations start from, and for every short text when the two functions
\* are applied one after the other.
C25_AddRemoveRoundTrip ==
    /\ (pStage = "roundtrip" /\ WhitespaceFree(pId)
          /\ OwnedLines(pIn, pId) = <<>>) =>
            pOut = pIn
    /\ ( /\ pc = "exited"
         /\ outcome = "Done"
         /\ runs = 2
         /\ Len(log) = 2
         /\ log[1].op = "add"
         /\ log[2].op = "remove"
         /\ log[1].id = log[2].id
         /\ fs0.file
         /\ OwnedLines(fs0.content, username) = <<>> ) =>
            /\ fsFile
            /\ fsContent = fs0.content

C25_Witness ==
    /\ pc = "exited"
    /\ outcome = "Done"
    /\ runs = 2
    /\ Len(log) = 2
    /\ log[1].op = "add"
    /\ log[2].op = "remove"
    /\ log[1].id = <<"a", "b">>
    /\ log[2].id = <<"a", "b">>
    /\ Len(Split(log[1].block)) = 2
    /\ fs0.content = <<"j", SP, "b", NL>>
    /\ pre.content # fs0.content
    /\ fsContent = fs0.content

\* the round trip on an empty file
C25_EmptyFile ==
    /\ pc = "exited"
    /\ outcome = "Done"
    /\ runs = 2
    /\ Len(log) = 2
    /\ log[1].op = "add"
    /\ log[2].op = "remove"
    /\ log[1].id = log[2].id
    /\ fs0.file
    /\ fs0.content = <<>>
    /\ fsContent = <<>>

\* the round trip of the two functions on a text of two lines ending in a
\* newline
C25_PureTrip ==
    /\ pStage = "roundtrip"
    /\ pId = <<"b">>
    /\ OwnedLines(pIn, pId) = <<>>
    /\ Len(Split(pIn)) = 3
    /\ Last(pIn) = NL
    /\ pOut = pIn

\* the text after the last white space of line
RECURSIVE LastToken(_)
LastToken(line) ==
    IF line = <<>> \/ IsSpace(Last(line)) THEN <<>>
    ELSE Append(LastToken(SubSeq(line, 1, Len(line) - 1)), Last(line))

\* line was appended by a completed Add, and ends in a space and the identity
\* of that Add, which is its last token
AppendedWithIdentity(line) ==
    \E j \in 1..Len(log) :
        /\ log[j].op = "add"
        /\ line \in Range(Split(log[j].block))
        /\ HasSuffix(line, <<SP>> \o log[j].id)
        /\ LastToken(line) = log[j].id
        /\ Len(line) > Len(log[j].id) + 1

\* C26: from an absent or empty file, between the invocations of add and
\* remove (completed, declined, or failed before they wrote), the content is
\* empty or has no blank line, no newline at its start or end, and only lines
\* that a completed Add appended, each ending in a space and the identity of
\* that Add as its last token.
C26_StoreWellFormed ==
    ( /\ pc = "exited"
      /\ (~fs0.file \/ fs0.content = <<>>)
      /\ ~partial
      /\ ~WroteThenFailed ) =>
        \/ fsContent = <<>>
        \/ /\ Head(fsContent) # NL
           /\ Last(fsContent) # NL
           /\ \A i \in 1..Len(Split(fsContent)) :
                 LET line == Split(fsContent)[i]
                 IN  /\ TrimSpace(line) # <<>>
                     /\ AppendedWithIdentity(line)

C26_Witness ==
    /\ pc = "exited"
    /\ ~fs0.file
    /\ ~partial
    /\ ~WroteThenFailed
    /\ runs = 3
    /\ Len(log) = 2
    /\ log[1].op = "add" /\ log[1].id = <<"a", "b">>
    /\ log[2].op = "add" /\ log[2].id = <<"b">>
    /\ outcome = "Aborted"
    /\ Len(Split(fsContent)) = 4

\* lines left by a Remove between two Adds
C26_AfterRemove ==
    /\ pc = "exited"
    /\ fs0.file
    /\ fs0.content = <<>>
    /\ ~partial
    /\ Len(log) = 3
    /\ log[1].op = "add" /\ log[2].op = "remove" /\ log[3].op = "add"
    /\ fsContent # <<>>

\* what the claim leaves out: a separator written, then the block not
C26_SeparatorThenFailure ==
    /\ pc = "exited"
    /\ ~fs0.file
    /\ WroteThenFailed
    /\ fsContent # <<>>
    /\ Last(fsContent) = NL

\* C27: a prompt that finds the input at its end, with no text, is answered
\* no without an error, and the add or remove ends there, aborted, returning
\* success, the file system as it was; the text yes ended by the end of the
\* input is a yes; and within one invocation the first prompt reads the first
\* line of the input stream and each later prompt the line after the one the
\* prompt before it read.
C27_EofIsDecline ==
    (InCall /\ action \in {"add", "remove"}) =>
        /\ Len(heard) = Len(asked)
        /\ stdinReader.open <=> asked # <<>>
        /\ stdinReader.open =>
              stdinReader.buf = ReadString(heard[Len(heard)]).rest
        /\ \A i \in 1..Len(asked) :
              LET r == ReadString(heard[i])
              IN  /\ (r.err = "EOF" /\ r.line = <<>>) =>
                        /\ ~asked[i].yes
                        /\ asked[i].err = "nil"
                        /\ i = Len(asked)
                        /\ pc = "exited"
                        /\ outcome = "Aborted"
                        /\ err = "nil"
                        /\ runErr = NoError
                        /\ exit = "returned"
                        /\ muts = <<>>
                        /\ Snapshot = pre
                  /\ (r.err = "EOF" /\ r.line = <<"y", "e", "s">>) =>
                        (asked[i].yes /\ asked[i].err = "nil")
                  /\ r.err # "read error" =>
                        /\ asked[i].err = "nil"
                        /\ asked[i].yes <=>
                              ToLower(TrimSpace(r.line)) = <<"y", "e", "s">>
                  /\ i = 1 => heard[i] \in StdinStreams
                  /\ i > 1 => /\ heard[i].buf = ReadString(heard[i - 1]).rest
                              /\ heard[i].fail = heard[i - 1].fail

C27_Witness ==
    /\ InCall
    /\ action = "add"
    /\ pc = "exited"
    /\ pre.file
    /\ heard = <<[buf |-> <<>>, fail |-> FALSE]>>
    /\ outcome = "Aborted"
    /\ Printed("Keys added successfully!")

\* a Remove whose prompt finds the input at its end
C27_RemoveAtEof ==
    /\ InCall
    /\ action = "remove"
    /\ pc = "exited"
    /\ heard = <<[buf |-> <<>>, fail |-> FALSE]>>
    /\ outcome = "Aborted"
    /\ fsContent # <<>>

\* an Add whose second prompt reads yes with no newline after it
C27_YesAtEof ==
    /\ InCall
    /\ action = "add"
    /\ pc = "exited"
    /\ Len(heard) = 2
    /\ heard[2] = [buf |-> <<"y", "e", "s">>, fail |-> FALSE]
    /\ outcome = "Done"
    /\ stdinReader.buf = <<>>

\* an Add whose second prompt reads the second line, which is no
C27_SecondLine ==
    /\ InCall
    /\ action = "add"
    /\ pc = "exited"
    /\ Len(heard) = 2
    /\ heard[1].buf = <<"y", "e", "s", NL, "n", "o", NL>>
    /\ heard[2].buf = <<"n", "o", NL>>
    /\ asked[1].yes
    /\ ~asked[2].yes
    /\ outcome = "Aborted"

=============================================================================
